---------------------------- MODULE Spec2Model ----------------------------
(***************************************************************************)
(* Ping, a mock message router (src/main.py).                              *)
(*                                                                         *)
(* The service keeps two pieces of process-wide state: the message log     *)
(* MESSAGES and the rule store ROUTING_RULES.  Every handler is an         *)
(* `async def` without an await, so it runs to completion on the event     *)
(* loop: one action per handler.                                           *)
(*                                                                         *)
(* Text (subjects, keywords, message bodies, ids) is a sequence of         *)
(* one-character strings, so that lower(), the substring test, slicing     *)
(* and str(int) are computed. Channel names, handles and the other opaque  *)
(* strings are TLA+ strings. A Python dict is a function whose DOMAIN is   *)
(* its key set; an absent key is a key outside the DOMAIN.                 *)
(***************************************************************************)
EXTENDS Integers, Sequences, FiniteSets, TLC

VARIABLES
    MESSAGES,        \* main.py:61   the message log, in append order
    ROUTING_RULES,   \* main.py:84   the rule store
    routedBy,        \* history: for each stored message, the return statement
                     \* of route_message that produced its channel
    last             \* the request handled last and what it answered

vars == <<MESSAGES, ROUTING_RULES, routedBy, last>>

-----------------------------------------------------------------------------
(* Python values                                                           *)

\* Python's None / JSON null.
None == "<None>"

\* {} : the dict without keys.
EmptyDict == [k \in {} |-> None]

\* d.get(k, default)
Get(d, k, default) == IF k \in DOMAIN d THEN d[k] ELSE default

UpperCase == <<"A","B","C","D","E","F","G","H","I","J","K","L","M",
               "N","O","P","Q","R","S","T","U","V","W","X","Y","Z">>
LowerCase == <<"a","b","c","d","e","f","g","h","i","j","k","l","m",
               "n","o","p","q","r","s","t","u","v","w","x","y","z">>

\* str.lower() on one character
LowerChar(c) ==
    IF \E i \in 1..Len(UpperCase) : UpperCase[i] = c
    THEN LowerCase[CHOOSE i \in 1..Len(UpperCase) : UpperCase[i] = c]
    ELSE c

\* mutant: the text is compared as written, without lower()
Lower_as_written(s) == s

\* str.lower()
Lower(s) == [i \in 1..Len(s) |-> LowerChar(s[i])]

\* k in s   (substring test on str)
Contains(s, k) ==
    \E i \in 0..(Len(s) - Len(k)) : SubSeq(s, i + 1, i + Len(k)) = k

\* s[:n]
Take(s, n) == SubSeq(s, 1, IF Len(s) < n THEN Len(s) ELSE n)

Digits == <<"0","1","2","3","4","5","6","7","8","9">>

RECURSIVE StrOfNat(_)
\* str(n) for n >= 0
StrOfNat(n) ==
    IF n < 10 THEN <<Digits[n + 1]>>
    ELSE Append(StrOfNat(n \div 10), Digits[(n % 10) + 1])

\* mutant: the log is returned in append order
Reversed_append_order(xs) == xs

\* list(reversed(xs))
Reversed(xs) == [i \in 1..Len(xs) |-> xs[Len(xs) + 1 - i]]


-----------------------------------------------------------------------------
(* Seed data                                                               *)

\* main.py:31-35
USERS ==
    [davit |-> [handle |-> "davit", name |-> "Davit A.",
                bio |-> "Building delightful products. Lover of crisp UIs and fast APIs.",
                email |-> "davit@example.com", phone |-> "+1234567890"],
     alex  |-> [handle |-> "alex", name |-> "Alex M.",
                bio |-> "Design, code, sound. Trying new mediums every week.",
                email |-> "alex@example.com", phone |-> "+1987654321"],
     kai   |-> [handle |-> "kai", name |-> "Kai Z.",
                bio |-> "Research -> Prototypes -> Systems. ping to collaborate.",
                email |-> "kai@example.com", phone |-> "+14155550123"]]

\* Literal['normal', 'urgent']                         main.py:42, 57
Priorities == {"normal", "urgent"}

\* mutant: the Literal of the two models also admits 'push'
Channels_with_push == {"email", "sms", "inbox", "push"}

\* Literal['email', 'sms', 'inbox']                    main.py:45, 58
Channels == {"email", "sms", "inbox"}

AwayText ==
    "Thanks for your message. I'm currently away and will reply during working hours."

\* main.py:64-82
DEFAULT_RULES ==
    [priority |-> [urgent |-> "sms"],
     subject_keywords |->
         [keywords |-> << <<"q","u","o","t","e">>, <<"c","o","l","l","a","b">> >>,
          channel |-> "email"],
     outside_working_hours |-> [channel |-> "email", auto_reply |-> AwayText],
     fallback |-> "inbox",
     working_hours |-> [start |-> 9, end |-> 17, weekdays_only |-> TRUE]]

\* the defaults is_working_hours falls back to        main.py:96-99
DefaultStart == 9
DefaultEnd == 17
DefaultWorkingHours ==
    [start |-> DefaultStart, end |-> DefaultEnd, weekdays_only |-> TRUE]

\* datetime.weekday() of Saturday; Monday is 0         main.py:101
Saturday == 5

-----------------------------------------------------------------------------
(* Helpers                                                                 *)

\* mutant: the hour test is closed at `end` (start <= hour <= end)
is_working_hours_closed_end(rules, dt) ==
    LET wh == Get(rules, "working_hours", DefaultWorkingHours)
        start == Get(wh, "start", DefaultStart)
        end == Get(wh, "end", DefaultEnd)
        weekdays_only == Get(wh, "weekdays_only", TRUE)
    IN  IF weekdays_only /\ dt.weekday >= Saturday
        THEN FALSE
        ELSE start <= dt.hour /\ dt.hour <= end

\* mutant: the weekend test is left out
is_working_hours_any_day(rules, dt) ==
    LET wh == Get(rules, "working_hours", DefaultWorkingHours)
        start == Get(wh, "start", DefaultStart)
        end == Get(wh, "end", DefaultEnd)
    IN  start <= dt.hour /\ dt.hour < end

\* is_working_hours, with ROUTING_RULES and datetime.utcnow() as parameters.
\* int() and bool() are applied to an int and to a bool.
is_working_hours(rules, dt) ==
    LET wh == Get(rules, "working_hours", DefaultWorkingHours)
        start == Get(wh, "start", DefaultStart)
        end == Get(wh, "end", DefaultEnd)
        weekdays_only == Get(wh, "weekdays_only", TRUE)
    IN  IF weekdays_only /\ dt.weekday >= Saturday
        THEN FALSE
        ELSE start <= dt.hour /\ dt.hour < end

\* mutant: the subject keywords are tried before the priority map
route_message_keywords_first(msg, rules, dt) ==
    LET prio_map == Get(rules, "priority", EmptyDict)
        sub_rule == Get(rules, "subject_keywords", EmptyDict)
        raw == Get(sub_rule, "keywords", <<>>)
        keywords == [i \in 1..Len(raw) |-> Lower(raw[i])]
        owh == Get(rules, "outside_working_hours", EmptyDict)
    IN  IF \E i \in 1..Len(keywords) : Contains(Lower(msg.subject), keywords[i])
        THEN [channel |-> Get(sub_rule, "channel", "email"), auto_reply |-> None,
              rule |-> "subject_keywords"]
        ELSE IF msg.priority \in DOMAIN prio_map
        THEN [channel |-> prio_map[msg.priority], auto_reply |-> None,
              rule |-> "priority"]
        ELSE IF ~is_working_hours(rules, dt)
        THEN [channel |-> Get(owh, "channel", "email"),
              auto_reply |-> Get(owh, "auto_reply", None),
              rule |-> "outside_working_hours"]
        ELSE [channel |-> Get(rules, "fallback", "inbox"), auto_reply |-> None,
              rule |-> "fallback"]

\* route_message, with ROUTING_RULES and the clock as parameters. `rule` names
\* the return statement taken; (channel, auto_reply) is the returned pair.
\* str() is applied to strings only.
route_message(msg, rules, dt) ==
    LET prio_map == Get(rules, "priority", EmptyDict)
        sub_rule == Get(rules, "subject_keywords", EmptyDict)
        raw == Get(sub_rule, "keywords", <<>>)
        keywords == [i \in 1..Len(raw) |-> Lower(raw[i])]
        owh == Get(rules, "outside_working_hours", EmptyDict)
    IN  IF msg.priority \in DOMAIN prio_map
        THEN [channel |-> prio_map[msg.priority], auto_reply |-> None,
              rule |-> "priority"]
        ELSE IF \E i \in 1..Len(keywords) : Contains(Lower(msg.subject), keywords[i])
        THEN [channel |-> Get(sub_rule, "channel", "email"), auto_reply |-> None,
              rule |-> "subject_keywords"]
        ELSE IF ~is_working_hours(rules, dt)
        THEN [channel |-> Get(owh, "channel", "email"),
              auto_reply |-> Get(owh, "auto_reply", None),
              rule |-> "outside_working_hours"]
        ELSE [channel |-> Get(rules, "fallback", "inbox"), auto_reply |-> None,
              rule |-> "fallback"]

\* A call either returns a value or raises.
Returned(v) == [raised |-> FALSE, value |-> v]
Raised(e) == [raised |-> TRUE, error |-> e]

\* DeliveryResult(...): pydantic validates `channel` against its Literal.
DeliveryResult(channel, delivered, debug, auto_reply) ==
    IF channel \in Channels
    THEN Returned([channel |-> channel, delivered |-> delivered,
                   debug |-> debug, auto_reply |-> auto_reply])
    ELSE Raised("ValidationError")

\* simulate_delivery: the list of DeliveryResult, or the exception raised
\* while building it.
simulate_delivery(channel, msg, auto_reply) ==
    LET known == msg.handle \in DOMAIN USERS
        r == CASE channel = "email" ->
                    DeliveryResult("email", TRUE,
                        <<"[EMAIL] To: ",
                          IF known THEN USERS[msg.handle].email ELSE "unknown",
                          " | From: ", msg.contact, " | Subj: ", msg.subject>>,
                        auto_reply)
               [] channel = "sms" ->
                    DeliveryResult("sms", TRUE,
                        <<"[SMS] To: ",
                          IF known THEN USERS[msg.handle].phone ELSE "unknown",
                          " | From: ", msg.contact, " | Msg: ",
                          Take(msg.message, 60), "...">>,
                        auto_reply)
               [] channel = "inbox" ->
                    DeliveryResult("inbox", TRUE,
                        <<"[INBOX] Stored for ", msg.handle,
                          " | From: ", msg.contact, " | Subj: ", msg.subject>>,
                        auto_reply)
               [] OTHER ->
                    DeliveryResult(channel, FALSE,
                        <<"[UNKNOWN] Channel ", channel, " not implemented">>,
                        auto_reply)
    IN  IF r.raised THEN r ELSE Returned(<<r.value>>)

\* Message(...): pydantic validates `priority` and `decided_channel` against
\* their Literals. created_at, a second reading of the clock, is not kept:
\* nothing below reads it.
Message(id, payload, channel, deliveries) ==
    IF channel \in Channels /\ payload.priority \in Priorities
    THEN Returned([id |-> id, handle |-> payload.handle,
                   subject |-> payload.subject, message |-> payload.message,
                   contact |-> payload.contact, priority |-> payload.priority,
                   decided_channel |-> channel, deliveries |-> deliveries])
    ELSE Raised("ValidationError")

-----------------------------------------------------------------------------
(* Requests the environment sends                                          *)

\* the log is capped at MaxLog messages
MaxLog == 2

Handles == {"davit", "nobody"}

Body == <<"p","i","n","g">>

Sender == "sender@example.com"

Subjects == { <<"Q","u","O","t","E">>, <<"h","i">> }

Payloads ==
    [handle : Handles, subject : Subjects, message : {Body},
     contact : {Sender}, priority : Priorities]

\* readings of datetime.utcnow(): Wednesday and Saturday, at 9 and at 17
Clock == [weekday : {2, 5}, hour : {9, 17}]

\* One optional key of a dict: <<>> leaves the key out, <<v>> sets it to v.
Field(key, opt) == IF opt = <<>> THEN EmptyDict ELSE (key :> opt[1])

Rules(p, k, o, f, w) ==
    Field("priority", p) @@ Field("subject_keywords", k)
    @@ Field("outside_working_hours", o) @@ Field("fallback", f)
    @@ Field("working_hours", w)

\* bodies of PUT /api/rules that are JSON objects
RuleObjects ==
    { DEFAULT_RULES,
      EmptyDict,
      Rules(<<[urgent |-> "push"]>>, <<>>, <<[channel |-> "sms"]>>, <<"sms">>, <<>>),
      Rules(<<>>, <<[keywords |-> << <<"Q","U","O","T","E">> >>, channel |-> "push"]>>,
            <<>>, <<>>, <<[weekdays_only |-> FALSE]>>),
      Rules(<<EmptyDict>>, <<[keywords |-> <<>>, channel |-> "sms"]>>,
            <<[channel |-> "push", auto_reply |-> AwayText]>>, <<"email">>,
            <<[start |-> 17, end |-> 24, weekdays_only |-> FALSE]>>) }

\* a body of PUT /api/rules that is no JSON object
NotAnObject == [kind |-> "array"]

RuleBodies == {[kind |-> "object", value |-> r] : r \in RuleObjects} \cup {NotAnObject}

-----------------------------------------------------------------------------
(* The service                                                             *)

NoRequest == [op |-> "none"]

Init ==
    /\ MESSAGES = <<>>
    /\ ROUTING_RULES = DEFAULT_RULES
    /\ routedBy = <<>>
    /\ last = NoRequest

\* POST /api/messages, `raise HTTPException(404, ...)`      main.py:173
create_message_not_found(payload) ==
    /\ last' = [op |-> "create_message", payload |-> payload, status |-> 404,
                detail |-> "User not found"]
    /\ UNCHANGED <<MESSAGES, ROUTING_RULES, routedBy>>

\* POST /api/messages, after the handle check               main.py:175-190
\* An exception raised by a constructor leaves the handler: a 500 response.
create_message_routed(payload, dt) ==
    LET d == route_message(payload, ROUTING_RULES, dt)
        deliveries == simulate_delivery(d.channel, payload, d.auto_reply)
        msg == Message(StrOfNat(Len(MESSAGES) + 1), payload, d.channel,
                       deliveries.value)
    IN  IF deliveries.raised \/ msg.raised
        THEN /\ last' = [op |-> "create_message", payload |-> payload,
                         now |-> dt, decision |-> d, status |-> 500]
             /\ UNCHANGED <<MESSAGES, ROUTING_RULES, routedBy>>
        ELSE /\ MESSAGES' = Append(MESSAGES, msg.value)
             /\ routedBy' = Append(routedBy, d.rule)
             /\ last' = [op |-> "create_message", payload |-> payload,
                         now |-> dt, decision |-> d, status |-> 200,
                         body |-> msg.value]
             /\ UNCHANGED ROUTING_RULES

\* mutant: the handle is not looked up before routing
create_message_unchecked(payload, dt) ==
    /\ Len(MESSAGES) < MaxLog
    /\ create_message_routed(payload, dt)

\* POST /api/messages                                        main.py:170-190
create_message(payload, dt) ==
    /\ Len(MESSAGES) < MaxLog
    /\ IF payload.handle \notin DOMAIN USERS
       THEN create_message_not_found(payload)
       ELSE create_message_routed(payload, dt)

\* GET /api/messages                                         main.py:166-168
list_messages ==
    /\ last' = [op |-> "list_messages", status |-> 200, body |-> Reversed(MESSAGES)]
    /\ UNCHANGED <<MESSAGES, ROUTING_RULES, routedBy>>

\* mutant: the new rules are merged into the current ones (dict.update)
update_rules_merge(new_rules) ==
    IF new_rules.kind # "object"
    THEN /\ last' = [op |-> "update_rules", new_rules |-> new_rules,
                     status |-> 400, detail |-> "Rules must be a JSON object"]
         /\ UNCHANGED <<MESSAGES, ROUTING_RULES, routedBy>>
    ELSE /\ ROUTING_RULES' = new_rules.value @@ ROUTING_RULES
         /\ last' = [op |-> "update_rules", new_rules |-> new_rules,
                     status |-> 200,
                     body |-> [ok |-> TRUE, updated |-> ROUTING_RULES']]
         /\ UNCHANGED <<MESSAGES, routedBy>>

\* PUT /api/rules                                            main.py:196-202
update_rules(new_rules) ==
    IF new_rules.kind # "object"
    THEN /\ last' = [op |-> "update_rules", new_rules |-> new_rules,
                     status |-> 400, detail |-> "Rules must be a JSON object"]
         /\ UNCHANGED <<MESSAGES, ROUTING_RULES, routedBy>>
    ELSE /\ ROUTING_RULES' = new_rules.value
         /\ last' = [op |-> "update_rules", new_rules |-> new_rules,
                     status |-> 200,
                     body |-> [ok |-> TRUE, updated |-> ROUTING_RULES']]
         /\ UNCHANGED <<MESSAGES, routedBy>>

\* mutant: the log is reported cleared but kept
reset_messages_keeps_log ==
    /\ last' = [op |-> "reset_messages", status |-> 200,
                body |-> [ok |-> TRUE, count |-> 0]]
    /\ UNCHANGED <<MESSAGES, ROUTING_RULES, routedBy>>

\* DELETE /api/messages                                      main.py:204-207
reset_messages ==
    /\ MESSAGES' = <<>>
    /\ routedBy' = <<>>
    /\ last' = [op |-> "reset_messages", status |-> 200,
                body |-> [ok |-> TRUE, count |-> 0]]
    /\ UNCHANGED ROUTING_RULES

Next ==
    \/ \E payload \in Payloads, dt \in Clock : create_message(payload, dt)
    \/ list_messages
    \/ \E new_rules \in RuleBodies : update_rules(new_rules)
    \/ reset_messages

Spec == Init /\ [][Next]_vars

-----------------------------------------------------------------------------
(* One request under any installed rule store                              *)
(*                                                                         *)
(* route_message is a function of the payload, the rule store and the      *)
(* clock. RouteSpec starts the service with any rule store a PUT can have  *)
(* installed and serves one POST /api/messages at any hour of the week.    *)

PriorityOpts ==
    { <<>>, <<[urgent |-> "sms"]>>, <<[normal |-> "inbox", urgent |-> "push"]>> }

KeywordOpts ==
    { <<DEFAULT_RULES.subject_keywords>>,
      <<[keywords |-> <<>>, channel |-> "sms"]>>,
      <<[keywords |-> << <<"Q","U","O","T","E">> >>]>> }

\* outside_working_hours and fallback, chosen together
ChannelOpts ==
    { << <<>>, <<>> >>,
      << <<DEFAULT_RULES.outside_working_hours>>, <<"inbox">> >>,
      << <<[channel |-> "sms"]>>, <<"sms">> >> }

WorkingOpts ==
    { <<>>,
      <<[weekdays_only |-> FALSE]>>,
      <<[start |-> 10, end |-> 12, weekdays_only |-> TRUE]>> }

RouteRules ==
    { Rules(p, k, c[1], c[2], w) : p \in PriorityOpts, k \in KeywordOpts,
                                   c \in ChannelOpts, w \in WorkingOpts }
    \cup {DEFAULT_RULES, EmptyDict}

RouteSubjects ==
    { <<>>,
      <<"h","i">>,
      <<"q","u","o","t">>,
      <<"Q","u","O","t","E">>,
      <<"a"," ","C","o","l","l","a","b","?">> }

RoutePayloads ==
    [handle : {"davit"}, subject : RouteSubjects, message : {Body},
     contact : {Sender}, priority : Priorities]

\* every weekday() and every hour of datetime.utcnow()
Week == [weekday : 0..6, hour : 0..23]

RouteInit ==
    /\ MESSAGES = <<>>
    /\ ROUTING_RULES \in RouteRules
    /\ routedBy = <<>>
    /\ last = NoRequest

RouteNext ==
    \E payload \in RoutePayloads, dt \in Week :
        /\ last = NoRequest
        /\ create_message_routed(payload, dt)

RouteSpec == RouteInit /\ [][RouteNext]_vars

-----------------------------------------------------------------------------
(* Properties                                                              *)

\* the last request was a POST /api/messages that got past the handle check
Routed == last.op = "create_message" /\ last.status # 404

\* the last request was a POST /api/messages that stored a message
Created == last.op = "create_message" /\ last.status = 200

RECURSIVE NatOfStr(_)
\* the number a string of decimal digits denotes
NatOfStr(s) ==
    IF Len(s) = 0 THEN 0
    ELSE 10 * NatOfStr(SubSeq(s, 1, Len(s) - 1))
         + (CHOOSE d \in 0..9 : Digits[d + 1] = s[Len(s)])

QuoteSubject == <<"Q","u","O","t","E">>
CollabSubject == <<"a"," ","C","o","l","l","a","b","?">>
PlainSubject == <<"h","i">>

\* the time is outside the working hours the rule store describes
OutsideHours(rules, dt) ==
    LET wh == Get(rules, "working_hours", EmptyDict)
    IN  \/ Get(wh, "weekdays_only", TRUE) /\ dt.weekday \in {5, 6}
        \/ ~(Get(wh, "start", 9) <= dt.hour /\ dt.hour < Get(wh, "end", 17))

\* some configured keyword occurs in the subject, letter case ignored
KeywordMatch(rules, subject) ==
    LET kws == Get(Get(rules, "subject_keywords", EmptyDict), "keywords", <<>>)
    IN  \E i \in 1..Len(kws) : Contains(Lower(subject), Lower(kws[i]))

PriorityMatch(rules, priority) ==
    priority \in DOMAIN Get(rules, "priority", EmptyDict)

\* C1: whenever the rule store's priority mapping has a key equal to the
\* message's priority, the routing decision is that mapping's value with no
\* auto-reply, whatever the subject and the time; with the default rules an
\* urgent message is stored with decided_channel 'sms'.
C1_PriorityShortCircuits ==
    Routed =>
        /\ PriorityMatch(ROUTING_RULES, last.payload.priority) =>
              /\ last.decision.channel
                    = ROUTING_RULES.priority[last.payload.priority]
              /\ last.decision.auto_reply = None
        /\ (ROUTING_RULES = DEFAULT_RULES /\ last.payload.priority = "urgent") =>
              /\ last.status = 200
              /\ last.body.decided_channel = "sms"
              /\ last.body.deliveries[1].auto_reply = None

\* C1 witness: default rules, an urgent message whose subject matches a
\* keyword, sent on a Sunday night, stored with channel 'sms'.
C1_Witness ==
    /\ Created
    /\ ROUTING_RULES = DEFAULT_RULES
    /\ last.payload.priority = "urgent"
    /\ last.payload.subject = QuoteSubject
    /\ last.now = [weekday |-> 6, hour |-> 23]
    /\ last.body.decided_channel = "sms"

\* C5: with the default rules a normal-priority message whose subject contains
\* 'quote' or 'collab' in any letter case is routed to 'email' without
\* auto-reply at every time; and under any rule store, when the priority rule
\* does not match and the keyword list is empty or absent, the decision is the
\* working-hours rule's (outside hours) or the fallback's (inside).
C5_KeywordBeforeWorkingHours ==
    Routed =>
        /\ ( /\ ROUTING_RULES = DEFAULT_RULES
             /\ last.payload.priority = "normal"
             /\ last.payload.subject \in {QuoteSubject, CollabSubject} ) =>
              /\ last.decision.channel = "email"
              /\ last.decision.auto_reply = None
              /\ last.status = 200
              /\ last.body.decided_channel = "email"
              /\ last.body.deliveries[1].auto_reply = None
        /\ ( /\ ~PriorityMatch(ROUTING_RULES, last.payload.priority)
             /\ Get(Get(ROUTING_RULES, "subject_keywords", EmptyDict),
                    "keywords", <<>>) = <<>> ) =>
              last.decision.rule =
                  IF OutsideHours(ROUTING_RULES, last.now)
                  THEN "outside_working_hours" ELSE "fallback"

\* C5 witness: default rules, normal priority, subject "QuOtE", Saturday 20:00,
\* stored with channel 'email' and no auto-reply.
C5_Witness ==
    /\ Created
    /\ ROUTING_RULES = DEFAULT_RULES
    /\ last.payload.priority = "normal"
    /\ last.payload.subject = QuoteSubject
    /\ last.now = [weekday |-> 5, hour |-> 20]
    /\ last.body.decided_channel = "email"
    /\ last.body.deliveries[1].auto_reply = None

\* C6: for a message matched by neither the priority rule nor the keyword rule
\* the decision is (outside_working_hours.channel or 'email', its auto_reply)
\* when weekdays_only holds on a Saturday or Sunday or when the hour is not in
\* [start, end), and (fallback or 'inbox', no auto-reply) otherwise. Default
\* rules: Saturday 10:00 and Wednesday 20:00 give email with the away text,
\* Wednesday 10:00 gives inbox without auto-reply.
C6_WorkingHoursThenFallback ==
    Routed =>
        LET owh == Get(ROUTING_RULES, "outside_working_hours", EmptyDict)
            plain == /\ ROUTING_RULES = DEFAULT_RULES
                     /\ last.payload.priority = "normal"
                     /\ last.payload.subject = PlainSubject
            away == [channel |-> "email", auto_reply |-> AwayText,
                     rule |-> "outside_working_hours"]
        IN  /\ ( /\ ~PriorityMatch(ROUTING_RULES, last.payload.priority)
                 /\ ~KeywordMatch(ROUTING_RULES, last.payload.subject) ) =>
                  last.decision =
                      IF OutsideHours(ROUTING_RULES, last.now)
                      THEN [channel |-> Get(owh, "channel", "email"),
                            auto_reply |-> Get(owh, "auto_reply", None),
                            rule |-> "outside_working_hours"]
                      ELSE [channel |-> Get(ROUTING_RULES, "fallback", "inbox"),
                            auto_reply |-> None, rule |-> "fallback"]
            /\ (plain /\ last.now = [weekday |-> 5, hour |-> 10]) =>
                  last.decision = away
            /\ (plain /\ last.now = [weekday |-> 2, hour |-> 20]) =>
                  last.decision = away
            /\ (plain /\ last.now = [weekday |-> 2, hour |-> 10]) =>
                  last.decision = [channel |-> "inbox", auto_reply |-> None,
                                   rule |-> "fallback"]

\* C6 witness: default rules, Wednesday 17:00 (hour = end), a message no
\* earlier rule matches, stored with channel 'email' and the away text.
C6_Witness ==
    /\ Created
    /\ ROUTING_RULES = DEFAULT_RULES
    /\ last.payload.priority = "normal"
    /\ last.payload.subject = PlainSubject
    /\ last.now = [weekday |-> 2, hour |-> 17]
    /\ last.body.decided_channel = "email"
    /\ last.body.deliveries[1].auto_reply = AwayText

\* C2 as stated: while the rule store is the empty object, every message that
\* is routed is stored with decided_channel 'inbox'.
C2_EmptyRulesAlwaysInbox ==
    (ROUTING_RULES = EmptyDict /\ Routed) =>
        /\ last.status = 200
        /\ last.body.decided_channel = "inbox"

\* C2 as amended: while the rule store is the empty object, every message that
\* is routed is stored, without auto-reply, with decided_channel 'inbox' when
\* the time is Monday to Friday with 9 <= hour < 17 and 'email' at every
\* other time.
C2_EmptyRulesInboxInDefaultHours ==
    (ROUTING_RULES = EmptyDict /\ Routed) =>
        /\ last.status = 200
        /\ last.body.decided_channel =
              IF last.now.weekday < 5 /\ 9 <= last.now.hour /\ last.now.hour < 17
              THEN "inbox" ELSE "email"
        /\ last.body.deliveries[1].auto_reply = None

\* C2 witness: the rule store is the empty object, a second message is created
\* on a Saturday and stored with channel 'email'.
C2_Witness ==
    /\ ROUTING_RULES = EmptyDict
    /\ Created
    /\ Len(MESSAGES) = 2
    /\ last.now.weekday = 5
    /\ last.body.decided_channel = "email"

\* C3: when routing names a channel outside {email, sms, inbox}, the create
\* request completes and appends a message whose decided_channel is that
\* channel and whose single DeliveryResult has delivered = false.
C3_UnknownChannelIsStored ==
    (Routed /\ last.decision.channel \notin {"email", "sms", "inbox"}) =>
        /\ last.status = 200
        /\ Len(MESSAGES) > 0
        /\ MESSAGES[Len(MESSAGES)] = last.body
        /\ last.body.decided_channel = last.decision.channel
        /\ Len(last.body.deliveries) = 1
        /\ last.body.deliveries[1].delivered = FALSE

\* C4: in every state the k-th message of the log has id k; a rules update
\* changes no stored id; DELETE /api/messages empties the log; a message
\* created on an empty log gets id "1".
C4_IdsSequential ==
    [][ /\ \A k \in 1..Len(MESSAGES') : NatOfStr(MESSAGES'[k].id) = k
        /\ last'.op = "update_rules" =>
              /\ Len(MESSAGES') = Len(MESSAGES)
              /\ \A k \in 1..Len(MESSAGES) : MESSAGES'[k].id = MESSAGES[k].id
        /\ last'.op = "reset_messages" => MESSAGES' = <<>>
        /\ (MESSAGES = <<>> /\ last'.op = "create_message" /\ last'.status = 200) =>
              /\ last'.body.id = <<"1">>
              /\ MESSAGES' = <<last'.body>>
      ]_vars

\* C4 witness: two stored messages with ids "1" and "2", after a rules update.
C4_Witness ==
    /\ last.op = "update_rules"
    /\ last.status = 200
    /\ Len(MESSAGES) = 2
    /\ MESSAGES[1].id = <<"1">>
    /\ MESSAGES[2].id = <<"2">>

\* C7: a create request whose handle is not in the user directory answers 404
\* and leaves the log and the rule store as they were; a create request that
\* stores a message gives it the id (log length before the request) + 1.
C7_UnknownHandleChangesNothing ==
    [][ last'.op = "create_message" =>
          /\ last'.payload.handle \notin {"davit", "alex", "kai"} =>
                /\ last'.status = 404
                /\ MESSAGES' = MESSAGES
                /\ ROUTING_RULES' = ROUTING_RULES
          /\ last'.status = 200 =>
                NatOfStr(last'.body.id) = Len(MESSAGES) + 1
      ]_vars

\* C7 witness: a 404 answer to a create request while the log holds a message.
C7_Witness ==
    /\ last.op = "create_message"
    /\ last.status = 404
    /\ last.payload.handle = "nobody"
    /\ Len(MESSAGES) = 1

\* C8: list-messages returns the messages of the log in the reverse of their
\* append order, so the returned ids strictly decrease, and leaves the log as
\* it was.
C8_ListNewestFirst ==
    [][ last'.op = "list_messages" =>
          /\ MESSAGES' = MESSAGES
          /\ Len(last'.body) = Len(MESSAGES)
          /\ \A i \in 1..Len(MESSAGES) :
                last'.body[i] = MESSAGES[Len(MESSAGES) + 1 - i]
          /\ \A i, j \in 1..Len(last'.body) :
                i < j => NatOfStr(last'.body[i].id) > NatOfStr(last'.body[j].id)
      ]_vars

\* C8 witness: a listing of two messages, the one with id "2" first.
C8_Witness ==
    /\ last.op = "list_messages"
    /\ Len(last.body) = 2
    /\ last.body[1].id = <<"2">>
    /\ last.body[2].id = <<"1">>

\* C9: an accepted rules update with object R makes the rule store R (same
\* keys, same values) and leaves the log as it was; create-message leaves the
\* rule store as it was; every request but the bulk clear keeps the stored
\* messages, in place and unchanged.
C9_WholesaleReplaceAndImmutableLog ==
    [][ /\ (last'.op = "update_rules" /\ last'.status = 200) =>
              /\ ROUTING_RULES' = last'.new_rules.value
              /\ DOMAIN ROUTING_RULES' = DOMAIN last'.new_rules.value
              /\ MESSAGES' = MESSAGES
        /\ last'.op = "create_message" => ROUTING_RULES' = ROUTING_RULES
        /\ last'.op # "reset_messages" =>
              /\ Len(MESSAGES') >= Len(MESSAGES)
              /\ \A k \in 1..Len(MESSAGES) : MESSAGES'[k] = MESSAGES[k]
      ]_vars

\* C9 witness: the rules were just replaced by the empty object while the log
\* holds a message routed to 'sms' under the earlier rules.
C9_Witness ==
    /\ last.op = "update_rules"
    /\ last.status = 200
    /\ ROUTING_RULES = EmptyDict
    /\ Len(MESSAGES) >= 1
    /\ MESSAGES[1].decided_channel = "sms"

\* C10: every stored message has exactly one DeliveryResult, whose channel is
\* the message's decided_channel and one of email, sms, inbox, with delivered
\* true, and with an auto_reply only if the outside-working-hours rule routed
\* the message.
C10_StoredMessagesWellFormed ==
    /\ Len(routedBy) = Len(MESSAGES)
    /\ \A k \in 1..Len(MESSAGES) :
          /\ Len(MESSAGES[k].deliveries) = 1
          /\ MESSAGES[k].deliveries[1].channel = MESSAGES[k].decided_channel
          /\ MESSAGES[k].decided_channel \in {"email", "sms", "inbox"}
          /\ MESSAGES[k].deliveries[1].delivered = TRUE
          /\ MESSAGES[k].deliveries[1].auto_reply # None =>
                routedBy[k] = "outside_working_hours"

\* C10 witness: a stored message carrying the away text, and a later create
\* request refused because routing named the channel 'push'.
C10_Witness ==
    /\ Len(MESSAGES) >= 1
    /\ MESSAGES[1].deliveries[1].auto_reply = AwayText
    /\ last.op = "create_message"
    /\ last.status = 500
    /\ last.decision.channel = "push"

=============================================================================
